---- MODULE Spec2Model ----
(***************************************************************************)
(* Hospital queue management: the wait-time estimator (QueueMLModel of     *)
(* backend/ml_queue_manager.py), its startup, its retraining by            *)
(* update_model, the doctor selection of assign_doctor and the priority    *)
(* score of calculate_priority.                                            *)
(*                                                                         *)
(* A fitted object (the StandardScaler or the RandomForestRegressor) is    *)
(* represented by the dataset it was fitted on, its "generation": the      *)
(* bootstrap set of _train_initial_model or the batch of one update_model  *)
(* call.  The scaler and the regressor are two objects that the code fits  *)
(* in place one after the other, so each has a generation of its own.      *)
(***************************************************************************)
EXTENDS Integers, Sequences, FiniteSets, TLC

VARIABLES
    scaler,           \* self.scaler: generation of the in-memory normalization
    wait_time_model,  \* self.wait_time_model: generation of the in-memory regressor
    is_trained,       \* self.is_trained
    model_file,       \* queue_model.pkl
    scaler_file,      \* scaler.pkl
    proc,             \* position of the process: startup steps, serving, crashed
    upd,              \* one record per thread that may run update_model
    batches,          \* number of retraining batches handed to update_model so far
    sel,              \* the thread running assign_doctor
    pri,              \* the last calculate_priority call
    queue,            \* Doctor.current_queue_count, per doctor
    appts,            \* the Appointment table, in order of insertion (id = position)
    req               \* one record per worker thread handling book_appointment

vars == <<scaler, wait_time_model, is_trained, model_file, scaler_file,
          proc, upd, batches, sel, pri, queue, appts, req>>

estVars  == <<scaler, wait_time_model, is_trained>>
fileVars == <<model_file, scaler_file>>
appVars  == <<queue, appts, req>>

(***************************************************************************)
(* Bounds of the model.                                                    *)
(***************************************************************************)
MaxBatches == 2      \* retraining batches (of at least 50 samples) per run
MaxCands   == 2      \* longest candidate list handed to assign_doctor

(***************************************************************************)
(* Generations.                                                            *)
(***************************************************************************)
Gen(k, i) == [kind |-> k, id |-> i]
Unfitted  == Gen("unfitted", 0)   \* a freshly constructed estimator object
Boot      == Gen("boot", 0)       \* fitted on the seeded synthetic set
Batch(b)  == Gen("batch", b)      \* fitted on the b-th retraining batch
Absent    == Gen("absent", 0)     \* the file does not exist
Corrupt   == Gen("corrupt", 0)    \* the file exists and cannot be unpickled

Updaters == {"u1", "u2"}

MinRetrainSamples == 50
SampleSizes == {0, MinRetrainSamples - 1, MinRetrainSamples}

IdleUpd == [pc |-> "idle", n |-> 0, batch |-> 0, result |-> "none"]

IdleSel == [pc |-> "idle", cands |-> <<>>, i |-> 1, best |-> 0, min |-> 0,
            scalers |-> <<>>, models |-> <<>>, effs |-> <<>>, raw |-> <<>>,
            adj |-> <<>>, outcome |-> "none", doctor |-> 0, wait |-> 0]

\* The seeded doctors 1 and 2 of department 1 and doctor 3 of department 2
\* (app.py lines 93-95), all available, and two request threads.
Doctors == {1, 2, 3}
DeptOf  == <<1, 1, 2>>
Depts   == {1, 2}
Workers == {"w1", "w2"}

IdleReq == [pc |-> "idle", dept |-> 0, doctor |-> 0, count |-> 0, q |-> 0,
            outcome |-> "none"]

NoScore == [age |-> 0, history |-> <<>>, missing |-> TRUE, score |-> 0, called |-> FALSE]

(***************************************************************************)
(* Startup: QueueMLModel.__init__, run once when the module is imported,   *)
(* before any request is served.                                           *)
(***************************************************************************)
\* __init__, lines 15-21: the state before _load_model runs.
Init ==
    /\ scaler = Unfitted
    /\ wait_time_model = Unfitted
    /\ is_trained = FALSE
    /\ model_file = Absent
    /\ scaler_file = Absent
    /\ proc = "load"
    /\ upd = [t \in Updaters |-> IdleUpd]
    /\ batches = 0
    /\ sel = IdleSel
    /\ pri = NoScore
    /\ queue = [d \in Doctors |-> 0]
    /\ appts = <<>>
    /\ req = [w \in Workers |-> IdleReq]

\* _load_model: both files must exist; the regressor is loaded first, the
\* scaler second, and is_trained is set only when both loads succeeded.  A
\* failing load is swallowed by the bare except.
LoadedModel ==
    IF model_file # Absent /\ scaler_file # Absent /\ model_file # Corrupt
    THEN model_file ELSE wait_time_model

LoadedScaler ==
    IF model_file # Absent /\ scaler_file # Absent
       /\ model_file # Corrupt /\ scaler_file # Corrupt
    THEN scaler_file ELSE scaler

\* The load with is_trained set as soon as the regressor is loaded.
LoadSucceedsModelOnly ==
    /\ model_file # Absent /\ scaler_file # Absent
    /\ model_file # Corrupt

LoadSucceeds ==
    /\ model_file # Absent /\ scaler_file # Absent
    /\ model_file # Corrupt /\ scaler_file # Corrupt

LoadModel ==
    /\ proc = "load"
    /\ wait_time_model' = LoadedModel
    /\ scaler' = LoadedScaler
    /\ is_trained' = LoadSucceeds
    /\ proc' = IF LoadSucceeds THEN "serving" ELSE "train"
    /\ UNCHANGED <<fileVars, upd, batches, sel, pri, appVars>>

\* _train_initial_model, lines 48-73: both objects are fitted on the seeded
\* synthetic set (np.random.seed(42), random_state=42).
TrainInitialFit ==
    /\ proc = "train"
    /\ scaler' = Boot
    /\ wait_time_model' = Boot
    /\ is_trained' = TRUE
    /\ proc' = "boot_dump_model"
    /\ UNCHANGED <<fileVars, upd, batches, sel, pri, appVars>>

\* line 76: joblib.dump(self.wait_time_model, 'queue_model.pkl')
TrainInitialDumpModel ==
    /\ proc = "boot_dump_model"
    /\ model_file' = wait_time_model
    /\ proc' = "boot_dump_scaler"
    /\ UNCHANGED <<estVars, scaler_file, upd, batches, sel, pri, appVars>>

\* line 76 raising: the exception leaves __init__ and the import fails.  The
\* file is left as it was or truncated.
TrainInitialDumpModelFails ==
    /\ proc = "boot_dump_model"
    /\ \E f \in {model_file, Corrupt} : model_file' = f
    /\ proc' = "crashed"
    /\ UNCHANGED <<estVars, scaler_file, upd, batches, sel, pri, appVars>>

\* line 77: joblib.dump(self.scaler, 'scaler.pkl')
TrainInitialDumpScaler ==
    /\ proc = "boot_dump_scaler"
    /\ scaler_file' = scaler
    /\ proc' = "serving"
    /\ UNCHANGED <<estVars, model_file, upd, batches, sel, pri, appVars>>

TrainInitialDumpScalerFails ==
    /\ proc = "boot_dump_scaler"
    /\ \E f \in {scaler_file, Corrupt} : scaler_file' = f
    /\ proc' = "crashed"
    /\ UNCHANGED <<estVars, model_file, upd, batches, sel, pri, appVars>>

\* The process ends (at any point) and is started again: memory is lost, the
\* two files stay.  app.py line 15 constructs the model anew.
Restart ==
    /\ proc # "load"
    /\ scaler' = Unfitted
    /\ wait_time_model' = Unfitted
    /\ is_trained' = FALSE
    /\ proc' = "load"
    /\ upd' = [t \in Updaters |-> IdleUpd]
    /\ sel' = IdleSel
    /\ pri' = NoScore
    /\ req' = [w \in Workers |-> IdleReq]
    /\ UNCHANGED <<fileVars, batches, queue, appts>>

(***************************************************************************)
(* update_model.  No lock is taken anywhere in the class, so every line    *)
(* that touches self.scaler, self.wait_time_model or a file is a step of   *)
(* its own.                                                                *)
(***************************************************************************)
\* The threshold test with the comparison off by one.
TooFewSamplesInclusive(n) == n <= MinRetrainSamples

\* line 175: if len(appointment_data) < 50: return
TooFewSamples(n) == n < MinRetrainSamples

\* lines 175-194: the size check and the extraction of X_new, y_new.
UpdateCall(t, n) ==
    /\ proc = "serving"
    /\ upd[t].pc = "idle"
    /\ IF TooFewSamples(n)
       THEN /\ upd' = [upd EXCEPT ![t] = [pc |-> "idle", n |-> n, batch |-> 0,
                                          result |-> "skipped"]]
            /\ UNCHANGED batches
       ELSE /\ batches < MaxBatches
            /\ batches' = batches + 1
            /\ upd' = [upd EXCEPT ![t] = [pc |-> "fit_scaler", n |-> n,
                                          batch |-> batches + 1,
                                          result |-> "none"]]
    /\ UNCHANGED <<estVars, fileVars, proc, sel, pri, appVars>>

\* line 197: X_scaled = self.scaler.fit_transform(X_new) refits the shared
\* scaler object in place.
UpdateFitScaler(t) ==
    /\ proc = "serving"
    /\ upd[t].pc = "fit_scaler"
    /\ scaler' = Batch(upd[t].batch)
    /\ upd' = [upd EXCEPT ![t].pc = "fit_model"]
    /\ UNCHANGED <<wait_time_model, is_trained, fileVars, proc, batches, sel, pri, appVars>>

\* line 198: self.wait_time_model.fit(X_scaled, y_new) refits the shared
\* regressor in place, on the features this call scaled at line 197.
UpdateFitModel(t) ==
    /\ proc = "serving"
    /\ upd[t].pc = "fit_model"
    /\ wait_time_model' = Batch(upd[t].batch)
    /\ upd' = [upd EXCEPT ![t].pc = "dump_model"]
    /\ UNCHANGED <<scaler, is_trained, fileVars, proc, batches, sel, pri, appVars>>

\* line 198 raising (the targets are rejected, e.g. an actual_wait_time of
\* None): the regressor keeps its previous fit and the exception leaves
\* update_model; nothing restores the scaler.
UpdateFitModelFails(t) ==
    /\ proc = "serving"
    /\ upd[t].pc = "fit_model"
    /\ upd' = [upd EXCEPT ![t].pc = "idle", ![t].result = "fit_failed"]
    /\ UNCHANGED <<estVars, fileVars, proc, batches, sel, pri, appVars>>

\* line 201: joblib.dump(self.wait_time_model, 'queue_model.pkl')
UpdateDumpModel(t) ==
    /\ proc = "serving"
    /\ upd[t].pc = "dump_model"
    /\ model_file' = wait_time_model
    /\ upd' = [upd EXCEPT ![t].pc = "dump_scaler"]
    /\ UNCHANGED <<estVars, scaler_file, proc, batches, sel, pri, appVars>>

\* line 201 raising: nothing catches it, the exception reaches the caller.
UpdateDumpModelFails(t) ==
    /\ proc = "serving"
    /\ upd[t].pc = "dump_model"
    /\ \E f \in {model_file, Corrupt} : model_file' = f
    /\ upd' = [upd EXCEPT ![t].pc = "idle", ![t].result = "save_failed"]
    /\ UNCHANGED <<estVars, scaler_file, proc, batches, sel, pri, appVars>>

\* line 202: joblib.dump(self.scaler, 'scaler.pkl'), then the print and return.
UpdateDumpScaler(t) ==
    /\ proc = "serving"
    /\ upd[t].pc = "dump_scaler"
    /\ scaler_file' = scaler
    /\ upd' = [upd EXCEPT ![t].pc = "idle", ![t].result = "updated"]
    /\ UNCHANGED <<estVars, model_file, proc, batches, sel, pri, appVars>>

\* The failing save caught and dropped: the call returns as if it had saved.
UpdateDumpScalerFailsSwallowed(t) ==
    /\ proc = "serving"
    /\ upd[t].pc = "dump_scaler"
    /\ \E f \in {scaler_file, Corrupt} : scaler_file' = f
    /\ upd' = [upd EXCEPT ![t].pc = "idle", ![t].result = "updated"]
    /\ UNCHANGED <<estVars, model_file, proc, batches, sel, pri, appVars>>

UpdateDumpScalerFails(t) ==
    /\ proc = "serving"
    /\ upd[t].pc = "dump_scaler"
    /\ \E f \in {scaler_file, Corrupt} : scaler_file' = f
    /\ upd' = [upd EXCEPT ![t].pc = "idle", ![t].result = "save_failed"]
    /\ UNCHANGED <<estVars, model_file, proc, batches, sel, pri, appVars>>

Startup ==
    \/ LoadModel
    \/ TrainInitialFit
    \/ TrainInitialDumpModel
    \/ TrainInitialDumpModelFails
    \/ TrainInitialDumpScaler
    \/ TrainInitialDumpScalerFails

Update(t) ==
    \/ \E n \in SampleSizes : UpdateCall(t, n)
    \/ UpdateFitScaler(t)
    \/ UpdateFitModel(t)
    \/ UpdateFitModelFails(t)
    \/ UpdateDumpModel(t)
    \/ UpdateDumpModelFails(t)
    \/ UpdateDumpScaler(t)
    \/ UpdateDumpScalerFails(t)

(***************************************************************************)
(* assign_doctor.  A candidate is the dict book_appointment builds for one *)
(* available doctor; of its fields the model keeps the ones the code       *)
(* computes with (today_appointments, max_capacity, doctor_id).  The queue *)
(* length, the consultation time and the clock only enter the regressor,   *)
(* whose output is an input of the model: any wait of Waits.               *)
(*                                                                         *)
(* Rationals are pairs <<numerator, denominator>> with a positive          *)
(* denominator; waits after the penalty are kept in tenths of a minute.    *)
(***************************************************************************)
NoDoctor == 0          \* best_doctor_id = None
Inf      == 999999     \* min_wait_time = float('inf'), in tenths

\* line 106: load_ratio = today_load / max_capacity if max_capacity > 0 else 0
LoadRatio(today, cap) == IF cap > 0 THEN <<today, cap>> ELSE <<0, 1>>

\* line 107: efficiency = 1.0 - (load_ratio * 0.3)
Efficiency(lr) == <<10 * lr[2] - 3 * lr[1], 10 * lr[2]>>

\* The overload test with the threshold itself counted as overloaded.
OverloadedInclusive(lr) == 10 * lr[1] >= 8 * lr[2]

\* line 125: if load_ratio > 0.8
Overloaded(lr) == 10 * lr[1] > 8 * lr[2]

\* lines 125-126: predicted_wait *= 1.3 for an overloaded doctor (tenths).
Penalised(w, lr) == IF Overloaded(lr) THEN 13 * w ELSE 10 * w

\* The comparison of line 129 turned around, and with ties replacing the minimum.
BetterReversed(a, m) == a > m
BetterOrEqual(a, m) == a <= m

\* line 129: if predicted_wait < min_wait_time
Better(a, m) == a < m

\* line 133: int(min_wait_time) truncates toward zero.
Trunc10(x) == IF x >= 0 THEN x \div 10 ELSE -((-x) \div 10)

DoctorIds == 1..MaxCands
\* today_appointments / max_capacity: 0.8 exactly, just above 0.8, above 1
\* (book_appointment never compares the count with max_patients_per_day,
\* whose default is 40), and a capacity of 0.
Loads == {<<32, 40>>, <<33, 40>>, <<41, 40>>, <<1, 0>>}
Waits == {-10, 0, 10, 13}

Candidate == [doctor_id : DoctorIds, today : {l[1] : l \in Loads},
              cap : {l[2] : l \in Loads}]

\* Doctor.id is a primary key: the candidates of one call are distinct doctors.
CandLists ==
    {c \in UNION {[1..n -> {d \in Candidate : <<d.today, d.cap>> \in Loads}]
                    : n \in 0..MaxCands} :
        \A i, j \in DOMAIN c : i # j => c[i].doctor_id # c[j].doctor_id}

\* The candidate lists used while update_model runs beside assign_doctor.
PlainCand(k) == [doctor_id |-> k, today |-> 32, cap |-> 40]
PlainLists == {<<>>, <<PlainCand(1)>>, <<PlainCand(1), PlainCand(2)>>}

\* lines 93-96
SelectCall(c) ==
    /\ proc = "serving"
    /\ sel.pc = "idle"
    /\ sel' = [IdleSel EXCEPT !.pc = "loop", !.cands = c, !.i = 1,
                              !.best = NoDoctor, !.min = Inf]
    /\ UNCHANGED <<estVars, fileVars, proc, upd, batches, pri, appVars>>

\* lines 98-119: the features of candidate i are built and scaled with the
\* scaler that self.scaler holds at this moment.
SelectTransform ==
    /\ proc = "serving"
    /\ sel.pc = "loop"
    /\ sel.i <= Len(sel.cands)
    /\ LET d == sel.cands[sel.i]
       IN  sel' = [sel EXCEPT
                     !.pc = "predict",
                     !.effs = Append(@, Efficiency(LoadRatio(d.today, d.cap))),
                     !.scalers = Append(@, scaler)]
    /\ UNCHANGED <<estVars, fileVars, proc, upd, batches, pri, appVars>>

\* lines 122-131: the regressor that self.wait_time_model holds at this moment
\* predicts w; penalty; comparison with the running minimum.
SelectPredict(w) ==
    /\ proc = "serving"
    /\ sel.pc = "predict"
    /\ LET d == sel.cands[sel.i]
           a == Penalised(w, LoadRatio(d.today, d.cap))
       IN  sel' = [sel EXCEPT
                     !.pc = "loop",
                     !.i = @ + 1,
                     !.models = Append(@, wait_time_model),
                     !.raw = Append(@, w),
                     !.adj = Append(@, a),
                     !.min = IF Better(a, @) THEN a ELSE @,
                     !.best = IF Better(a, sel.min) THEN d.doctor_id ELSE @]
    /\ UNCHANGED <<estVars, fileVars, proc, upd, batches, pri, appVars>>

\* line 133: return best_doctor_id, int(min_wait_time).  int(float('inf'))
\* raises OverflowError.
SelectReturn ==
    /\ proc = "serving"
    /\ sel.pc = "loop"
    /\ sel.i > Len(sel.cands)
    /\ sel' = IF sel.min = Inf
              THEN [sel EXCEPT !.pc = "idle", !.outcome = "OverflowError"]
              ELSE [sel EXCEPT !.pc = "idle", !.outcome = "returned",
                               !.doctor = sel.best, !.wait = Trunc10(sel.min)]
    /\ UNCHANGED <<estVars, fileVars, proc, upd, batches, pri, appVars>>

(***************************************************************************)
(* calculate_priority.  Scores are in hundredths.  A history text is a     *)
(* tuple of characters; medical_history is a nullable column.              *)
(***************************************************************************)
MaxAge == 70

BasePriority  == 50
ElderlyBonus  == 20
InfantBonus   == 15
KeywordBonus  == 10
PriorityCap   == 100

emergency_keywords ==
    << <<"h", "e", "a", "r", "t">>,
       <<"c", "h", "e", "s", "t", " ", "p", "a", "i", "n">>,
       <<"b", "r", "e", "a", "t", "h", "i", "n", "g">>,
       <<"d", "i", "a", "b", "e", "t", "i", "c">>,
       <<"e", "m", "e", "r", "g", "e", "n", "c", "y">>,
       <<"s", "e", "v", "e", "r", "e">>,
       <<"a", "c", "u", "t", "e">>,
       <<"c", "r", "i", "t", "i", "c", "a", "l">> >>

LowerChar(c) ==
    CASE c = "A" -> "a"
      [] c = "B" -> "b"
      [] c = "C" -> "c"
      [] c = "D" -> "d"
      [] c = "E" -> "e"
      [] c = "F" -> "f"
      [] c = "G" -> "g"
      [] c = "H" -> "h"
      [] c = "I" -> "i"
      [] c = "J" -> "j"
      [] c = "K" -> "k"
      [] c = "L" -> "l"
      [] c = "M" -> "m"
      [] c = "N" -> "n"
      [] c = "O" -> "o"
      [] c = "P" -> "p"
      [] c = "Q" -> "q"
      [] c = "R" -> "r"
      [] c = "S" -> "s"
      [] c = "T" -> "t"
      [] c = "U" -> "u"
      [] c = "V" -> "v"
      [] c = "W" -> "w"
      [] c = "X" -> "x"
      [] c = "Y" -> "y"
      [] c = "Z" -> "z"
      [] OTHER -> c

\* line 158: patient.medical_history.lower()
Lower(text) == [k \in DOMAIN text |-> LowerChar(text[k])]

\* line 161: keyword in medical_history_lower
Contains(kw, text) ==
    \E k \in 0..(Len(text) - Len(kw)) : \A j \in 1..Len(kw) : text[k + j] = kw[j]

\* lines 149-152
AgeBonus(age) ==
    IF age > 65 THEN ElderlyBonus ELSE IF age < 5 THEN InfantBonus ELSE 0

\* The keyword loop without its break: every matching keyword adds its bonus.
RECURSIVE KeywordLoopNoBreak(_, _, _)
KeywordLoopNoBreak(k, text, priority) ==
    IF k > Len(emergency_keywords) THEN priority
    ELSE KeywordLoopNoBreak(k + 1, text,
             IF Contains(emergency_keywords[k], text)
             THEN priority + KeywordBonus ELSE priority)

\* lines 160-163: the loop over the keywords, left at the first match.
RECURSIVE KeywordLoop(_, _, _)
KeywordLoop(k, text, priority) ==
    IF k > Len(emergency_keywords) THEN priority
    ELSE IF Contains(emergency_keywords[k], text) THEN priority + KeywordBonus
    ELSE KeywordLoop(k + 1, text, priority)

\* lines 146-166
Priority(age, missing, text) ==
    LET p1 == BasePriority + AgeBonus(age)
        p2 == IF ~missing /\ text # <<>> THEN KeywordLoop(1, Lower(text), p1) ELSE p1
    IN  IF p2 < PriorityCap THEN p2 ELSE PriorityCap

Texts ==
    { <<>>,
      <<"f", "l", "u">>,
      <<"H", "e", "a", "r", "t">>,
      <<"c", "h", "e", "s", "t">>,
      <<"A", "C", "U", "T", "E">>,
      <<"D", "i", "a", "b", "e", "t", "i", "c">>,
      <<"s", "e", "v", "e", "r", "e", " ", "c", "h", "e", "s", "t", " ", "p", "a", "i", "n">>,
      <<"C", "r", "i", "t", "i", "c", "a", "l", " ", "e", "m", "e", "r", "g", "e", "n", "c", "y">> }

Ages == 0..MaxAge

CalculatePriority(age, missing, text) ==
    /\ proc = "serving"
    /\ pri' = [age |-> age, history |-> text, missing |-> missing,
               score |-> Priority(age, missing, text), called |-> TRUE]
    /\ UNCHANGED <<estVars, fileVars, proc, upd, batches, sel, appVars>>

Score ==
    \E age \in Ages :
        \/ CalculatePriority(age, TRUE, <<>>)
        \/ \E text \in Texts : CalculatePriority(age, FALSE, text)

(***************************************************************************)
(* Specifications.                                                         *)
(***************************************************************************)
Select ==
    \/ \E c \in PlainLists : SelectCall(c)
    \/ SelectTransform
    \/ \E w \in {10} : SelectPredict(w)
    \/ SelectReturn

SelectAny ==
    \/ \E c \in CandLists : SelectCall(c)
    \/ SelectTransform
    \/ \E w \in Waits : SelectPredict(w)
    \/ SelectReturn

\* The estimator under concurrent requests: startup, then two threads that may
\* run update_model beside one thread that runs assign_doctor.
Next ==
    \/ Startup
    \/ \E t \in Updaters : Update(t)
    \/ Select

Spec == Init /\ [][Next]_vars

\* The estimator over several lives of the process: one thread that may run
\* update_model, and restarts that keep the two files.
NextRestart ==
    \/ Startup
    \/ Restart
    \/ Update("u1")

SpecRestart == Init /\ [][NextRestart]_vars

\* assign_doctor on every candidate list and every predicted wait.
NextSelect == Startup \/ SelectAny

SpecSelect == Init /\ [][NextSelect]_vars

\* calculate_priority on every age and history text.
NextScore == Startup \/ Score

SpecScore == Init /\ [][NextScore]_vars

(***************************************************************************)
(* The appointment queue of app.py.  An appointment keeps the fields the   *)
(* queue handlers read and write: doctor_id, status and token_number.  All *)
(* requests of a run fall on one day.  book_appointment reads (the doctors,*)
(* the counts) and later commits, and two worker threads may be between    *)
(* the two; call, complete and status update are taken as one step each.   *)
(***************************************************************************)
MaxAppts == 3           \* bookings begun per run
MaxPatientsPerDay == 40 \* Doctor.max_patients_per_day, the column default

Statuses == {"waiting", "in-progress", "completed", "cancelled"}
Active(a) == a.status \in {"waiting", "in-progress"}

\* lines 246-251: f"{dept_code}-{today}-{token_count:04d}".  The department
\* codes of the seeded departments differ and the day is fixed, so a token is
\* the pair of department and count.
Token(dept, count) == [dept |-> dept, n |-> count]

\* lines 227-231: today's waiting or in-progress appointments of a doctor.
TodayAppointments(d) ==
    Cardinality({k \in DOMAIN appts : appts[k].doctor_id = d /\ Active(appts[k])})

\* lines 214-239: the available doctors of the department, by id, with
\* their counters.
RECURSIVE DoctorFeatures(_, _)
DoctorFeatures(dept, d) ==
    IF d > Cardinality(Doctors) THEN <<>>
    ELSE IF DeptOf[d] = dept
         THEN <<[doctor_id |-> d, today |-> TodayAppointments(d),
                 cap |-> MaxPatientsPerDay]>> \o DoctorFeatures(dept, d + 1)
         ELSE DoctorFeatures(dept, d + 1)

\* assign_doctor, lines 93-133, run in one piece on the candidate list c with
\* the predicted waits w: the doctor it returns.
RECURSIVE AssignLoop(_, _, _, _, _)
AssignLoop(c, w, i, best, min) ==
    IF i > Len(c) THEN best
    ELSE LET a == Penalised(w[i], LoadRatio(c[i].today, c[i].cap))
         IN  IF Better(a, min) THEN AssignLoop(c, w, i + 1, c[i].doctor_id, a)
             ELSE AssignLoop(c, w, i + 1, best, min)

Booked == Len(appts) + Cardinality({w \in Workers : req[w].pc = "commit"})

\* book_appointment, lines 204-251: the doctors are read with their queue
\* counts, assign_doctor picks one, and the token count is the number of
\* today's appointments plus one.
BookRead(w, dept) ==
    /\ proc = "serving"
    /\ req[w].pc = "idle"
    /\ Booked < MaxAppts
    /\ LET c == DoctorFeatures(dept, 1)
       IN  \E ws \in [1..Len(c) -> Waits] :
             LET best == AssignLoop(c, ws, 1, NoDoctor, Inf)
             IN  req' = [req EXCEPT ![w] =
                           [pc |-> "commit", dept |-> dept, doctor |-> best,
                            count |-> Len(appts) + 1, q |-> queue[best],
                            outcome |-> "none"]]
    /\ UNCHANGED <<estVars, fileVars, proc, upd, batches, sel, pri, queue, appts>>

\* lines 253-267: the appointment is inserted and the doctor's count written
\* as the count read plus one.  token_number is a unique column: the insert
\* of a token already in the table fails with IntegrityError.
BookCommit(w) ==
    /\ proc = "serving"
    /\ req[w].pc = "commit"
    /\ LET tok == Token(req[w].dept, req[w].count)
       IN  IF \E k \in DOMAIN appts : appts[k].token_number = tok
           THEN /\ req' = [req EXCEPT ![w].pc = "idle",
                                      ![w].outcome = "IntegrityError"]
                /\ UNCHANGED <<queue, appts>>
           ELSE /\ appts' = Append(appts, [doctor_id |-> req[w].doctor,
                                            status |-> "waiting",
                                            token_number |-> tok])
                /\ queue' = [queue EXCEPT ![req[w].doctor] = req[w].q + 1]
                /\ req' = [req EXCEPT ![w].pc = "idle", ![w].outcome = "booked"]
    /\ UNCHANGED <<estVars, fileVars, proc, upd, batches, sel, pri>>

\* max(0, current_queue_count - 1), lines 317 and 540
Decrement(q) == IF q - 1 > 0 THEN q - 1 ELSE 0

\* call_patient, lines 465-483
CallPatient(k) ==
    /\ proc = "serving"
    /\ k \in DOMAIN appts
    /\ appts' = [j \in DOMAIN appts |->
                   IF j = k THEN [appts[j] EXCEPT !.status = "in-progress"]
                   ELSE IF /\ appts[j].doctor_id = appts[k].doctor_id
                           /\ appts[j].status = "in-progress"
                        THEN [appts[j] EXCEPT !.status = "waiting"]
                        ELSE appts[j]]
    /\ UNCHANGED <<estVars, fileVars, proc, upd, batches, sel, pri, queue, req>>

\* complete_appointment, lines 523-542: the count is decremented whatever the
\* status was.
CompleteAppointment(k) ==
    /\ proc = "serving"
    /\ k \in DOMAIN appts
    /\ appts' = [appts EXCEPT ![k].status = "completed"]
    /\ queue' = [queue EXCEPT ![appts[k].doctor_id] = Decrement(@)]
    /\ UNCHANGED <<estVars, fileVars, proc, upd, batches, sel, pri, req>>

\* update_appointment_status, lines 303-319: any status is stored; the count
\* is decremented when the new status is completed and the old one was not.
UpdateStatus(k, st) ==
    /\ proc = "serving"
    /\ k \in DOMAIN appts
    /\ appts' = [appts EXCEPT ![k].status = st]
    /\ queue' = IF st = "completed" /\ appts[k].status # "completed"
                THEN [queue EXCEPT ![appts[k].doctor_id] = Decrement(@)]
                ELSE queue
    /\ UNCHANGED <<estVars, fileVars, proc, upd, batches, sel, pri, req>>

Requests ==
    \/ \E w \in Workers, dept \in Depts : BookRead(w, dept)
    \/ \E w \in Workers : BookCommit(w)
    \/ \E k \in 1..MaxAppts : CallPatient(k)
    \/ \E k \in 1..MaxAppts : CompleteAppointment(k)
    \/ \E k \in 1..MaxAppts, st \in Statuses : UpdateStatus(k, st)

\* The appointment queue behind the started application.
NextApp == Startup \/ Requests

SpecApp == Init /\ [][NextApp]_vars

(***************************************************************************)
(* Properties.                                                             *)
(***************************************************************************)
Quiescent == proc = "serving" /\ \A t \in Updaters : upd[t].pc = "idle"
Scored    == 1..Len(sel.models)
Finished  == sel.pc = "idle" /\ sel.outcome # "none"
Fitted(g) == g.kind \in {"boot", "batch"}

\* C1: every assign_doctor call scores all its candidates with one estimator
\* generation: for each scored candidate the scaler applied and the regressor
\* queried come from the same fit, and that fit is the same for all the
\* candidates of the call.
C1_OneGenerationPerSelect ==
    \A i \in Scored :
        /\ sel.scalers[i] = sel.models[i]
        /\ sel.scalers[i] = sel.scalers[1]

\* C2: two concurrent update_model calls are serialized: once both have
\* finished (each having retrained and saved), the in-memory scaler and the
\* in-memory regressor were fitted from the same one of the two batches.
C2_UpdatesSerialized ==
    (/\ proc = "serving"
     /\ \A t \in Updaters : upd[t].pc = "idle" /\ upd[t].result = "updated"
     /\ upd["u1"].batch # upd["u2"].batch)
    => /\ scaler = wait_time_model
       /\ \E t \in Updaters : scaler = Batch(upd[t].batch)

\* C3: whenever no fit or update is executing, the estimator is untrained or
\* its scaler and regressor were fitted together from the same dataset, also
\* after an update whose regressor refit failed.
C3_NoPartialState ==
    Quiescent =>
        \/ ~is_trained /\ scaler = Unfitted /\ wait_time_model = Unfitted
        \/ is_trained /\ Fitted(scaler) /\ scaler = wait_time_model

\* C4: update_model with fewer than 50 samples returns at once and leaves the
\* scaler, the regressor, is_trained and the two files unchanged; with 50 or
\* more samples it goes on to refit the scaler and then the regressor on its
\* batch, replacing what was in memory.
C4_SmallBatchNoOp ==
    [][\A t \in Updaters :
         /\ (upd[t].pc = "idle" /\ upd'[t] # upd[t] /\ proc' = "serving") =>
               \/ /\ upd'[t].n < 50
                  /\ upd'[t].pc = "idle"
                  /\ upd'[t].result = "skipped"
                  /\ UNCHANGED <<estVars, fileVars>>
               \/ /\ upd'[t].n >= 50
                  /\ upd'[t].pc = "fit_scaler"
         /\ (upd[t].pc = "fit_scaler" /\ upd'[t].pc = "fit_model") =>
               /\ upd[t].n >= 50
               /\ scaler' = Batch(upd[t].batch)
               /\ scaler' # scaler
         /\ (upd[t].pc = "fit_model" /\ upd'[t].pc = "dump_model") =>
               /\ wait_time_model' = Batch(upd[t].batch)
               /\ wait_time_model' # wait_time_model]_vars

\* C4 witness: one thread was skipped with 49 samples and another has
\* retrained and saved with 50.
C4_Witness ==
    \E t, u \in Updaters :
        /\ upd[t].result = "skipped" /\ upd[t].n = 49
        /\ upd[u].result = "updated" /\ upd[u].n = 50
        /\ scaler = Batch(upd[u].batch) /\ wait_time_model = Batch(upd[u].batch)

\* C5: assign_doctor on an empty candidate list ends with the defined
\* NoCandidateError outcome, and with no other error.
C5_EmptyIsNoCandidateError ==
    (Finished /\ sel.cands = <<>>) => sel.outcome = "NoCandidateError"

\* C6: on a non-empty candidate list assign_doctor returns, and the doctor_id
\* it returns is the doctor_id of one of the candidates, whatever waits were
\* predicted.
C6_ReturnsACandidate ==
    (Finished /\ sel.cands # <<>>) =>
        /\ sel.outcome = "returned"
        /\ sel.doctor # NoDoctor
        /\ \E i \in DOMAIN sel.cands : sel.cands[i].doctor_id = sel.doctor

\* C6 witness: a call on two candidates returned the second one.
C6_Witness ==
    /\ Finished /\ Len(sel.cands) = 2
    /\ sel.outcome = "returned"
    /\ sel.doctor = sel.cands[2].doctor_id

\* C7: the returned candidate has the smallest adjusted wait of all the
\* candidates, and every candidate before it in the input has a strictly
\* larger one (among equals the first wins).
C7_ArgMinFirstWins ==
    (Finished /\ sel.outcome = "returned") =>
        \E k \in DOMAIN sel.cands :
            /\ sel.cands[k].doctor_id = sel.doctor
            /\ \A j \in DOMAIN sel.cands : sel.adj[k] <= sel.adj[j]
            /\ \A j \in 1..(k - 1) : sel.adj[j] > sel.adj[k]

\* C7 witness: two candidates with different raw waits tie after the penalty
\* and the first is returned.
C7_Witness ==
    /\ Finished /\ Len(sel.cands) = 2
    /\ sel.raw[1] # sel.raw[2]
    /\ sel.adj[1] = sel.adj[2]
    /\ sel.doctor = sel.cands[1].doctor_id

\* C8: the wait compared for a candidate is 1.3 times its predicted wait
\* exactly when appointments_today / max_daily_capacity > 0.8, and the
\* predicted wait itself when the ratio is 0.8 or less or the capacity is 0
\* (adjusted waits are in tenths of a minute).
C8_PenaltyIffOverloaded ==
    \A i \in Scored :
        LET d == sel.cands[i]
        IN  IF d.cap > 0 /\ 5 * d.today > 4 * d.cap
            THEN sel.adj[i] = 13 * sel.raw[i]
            ELSE sel.adj[i] = 10 * sel.raw[i]

\* C8 witness: two candidates with the same predicted wait, one at a load
\* ratio of exactly 0.8 and one just above it, of which only the second is
\* penalised.
C8_Witness ==
    /\ Len(sel.adj) = 2
    /\ sel.raw[1] = 10 /\ sel.raw[2] = 10
    /\ sel.cands[1].today = 32 /\ sel.cands[1].cap = 40
    /\ sel.cands[2].today = 33 /\ sel.cands[2].cap = 40
    /\ sel.adj[1] = 100 /\ sel.adj[2] = 130

\* C9: the doctor_efficiency of every feature vector equals
\* 1.0 - min(load_ratio, 1.0) * 0.3 and lies in [0.7, 1.0], also when
\* appointments_today exceeds max_daily_capacity.
C9_EfficiencyClamped ==
    \A i \in 1..Len(sel.effs) :
        LET d  == sel.cands[i]
            e  == sel.effs[i]
            lr == IF d.cap > 0 THEN <<d.today, d.cap>> ELSE <<0, 1>>
            cl == IF lr[1] > lr[2] THEN <<1, 1>> ELSE lr
        IN  /\ e[1] * (10 * cl[2]) = (10 * cl[2] - 3 * cl[1]) * e[2]
            /\ 10 * e[1] >= 7 * e[2]
            /\ e[1] <= e[2]

\* The keywords as a set, and a case-insensitive occurrence of one of them.
KeywordSet == {emergency_keywords[k] : k \in DOMAIN emergency_keywords}
Mentions(text, kw) ==
    \E off \in 0..Len(text) :
        /\ off + Len(kw) <= Len(text)
        /\ \A j \in 1..Len(kw) : LowerChar(text[off + j]) = kw[j]

\* C10: the score is 0.5, plus 0.2 for an age above 65 or else 0.15 for an age
\* below 5, plus 0.1 once when at least one keyword occurs case-insensitively
\* in the history (none for a missing or empty history); so it lies in
\* [0.5, 1.0].  Scores are in hundredths.
C10_ScoreFormula ==
    pri.called =>
        LET ageBonus == IF pri.age > 65 THEN 20 ELSE IF pri.age < 5 THEN 15 ELSE 0
            keyBonus == IF ~pri.missing /\ \E kw \in KeywordSet : Mentions(pri.history, kw)
                        THEN 10 ELSE 0
        IN  /\ pri.score = 50 + ageBonus + keyBonus
            /\ 50 <= pri.score /\ pri.score <= 100
            /\ ~(pri.age > 65 /\ pri.age < 5)

\* C10 witness: age 3 with a history matching two keywords scores 0.75.
C10_Witness ==
    /\ pri.called /\ pri.age = 3 /\ ~pri.missing
    /\ Cardinality({kw \in KeywordSet : Mentions(pri.history, kw)}) = 2
    /\ pri.score = 75

Loadable(f) == Fitted(f)

\* C11: construction always ends with a trained estimator.  _load_model goes
\* on to serving only when both files exist and unpickle, and then memory
\* holds what the files hold; when a file is missing or a load fails the
\* bootstrap training runs and fits both parts.  So whenever requests are
\* served is_trained is true and both parts are fitted.  (A step to "load" from
\* another position is the process being started again.)
C11_StartupAlwaysTrains ==
    [][/\ proc = "load" =>
             IF Loadable(model_file) /\ Loadable(scaler_file)
             THEN /\ proc' = "serving" /\ is_trained'
                  /\ wait_time_model' = model_file /\ scaler' = scaler_file
             ELSE proc' = "train" /\ ~is_trained'
       /\ (proc = "train" /\ proc' # "load") =>
             is_trained' /\ scaler' = Boot /\ wait_time_model' = Boot
       /\ proc' = "serving" =>
             is_trained' /\ Fitted(scaler') /\ Fitted(wait_time_model')]_vars

\* C11 witness: a start that found the regressor file of a retraining and an
\* unreadable scaler file has run the bootstrap training.
C11_Witness ==
    /\ proc = "boot_dump_model"
    /\ model_file = Batch(1) /\ scaler_file = Corrupt
    /\ is_trained /\ scaler = Boot /\ wait_time_model = Boot

\* C12: an update_model call whose save failed ends with an error for its
\* caller and with the newly fitted scaler and regressor in memory; a call
\* that ends without error has written both files.  (One updating thread.)
C12_SaveFailureKeepsNewState ==
    \A t \in Updaters :
        upd[t].pc = "idle" =>
            /\ upd[t].result = "save_failed" =>
                  /\ is_trained
                  /\ scaler = Batch(upd[t].batch)
                  /\ wait_time_model = Batch(upd[t].batch)
                  /\ \/ model_file # Batch(upd[t].batch)
                     \/ scaler_file # Batch(upd[t].batch)
            /\ upd[t].result = "updated" =>
                  /\ model_file = Batch(upd[t].batch)
                  /\ scaler_file = Batch(upd[t].batch)

\* C12 witness: the regressor was saved, the save of the scaler failed and
\* the call ended with the error, the new fit being in memory.
C12_Witness ==
    /\ upd["u1"].pc = "idle" /\ upd["u1"].result = "save_failed"
    /\ scaler = Batch(1) /\ wait_time_model = Batch(1)
    /\ model_file = Batch(1) /\ scaler_file = Boot

\* C16: a startup load that succeeds leaves in memory a regressor and a
\* scaler that come from the same fit.
C16_LoadedPartsSameFit ==
    [][(proc = "load" /\ proc' = "serving") => scaler' = wait_time_model']_vars

\* C13: each doctor's current_queue_count equals the number of that doctor's
\* appointments that are waiting or in progress, whenever no booking is
\* between its read and its commit.
C13_QueueCountMatches ==
    (\A w \in Workers : req[w].pc = "idle") =>
        \A d \in Doctors : queue[d] = TodayAppointments(d)

\* C14: each doctor has at most one appointment in progress.
C14_OneInProgress ==
    \A d \in Doctors :
        Cardinality({k \in DOMAIN appts :
                       appts[k].doctor_id = d /\ appts[k].status = "in-progress"}) <= 1

\* C15: two bookings being handled never hold the same token number, and no
\* booking ends rejected by the unique-token constraint.
C15_DistinctTokens ==
    /\ \A w, v \in Workers :
          (w # v /\ req[w].pc = "commit" /\ req[v].pc = "commit") =>
              Token(req[w].dept, req[w].count) # Token(req[v].dept, req[v].count)
    /\ \A w \in Workers : req[w].outcome # "IntegrityError"

====
